---- MODULE Spec2Model ----
(***************************************************************************)
(* A model of src/audio_synthesizer.py: the construction of one Synth      *)
(* utterance (markup extraction, phoneme sequencing, diphone decomposition *)
(* and audio assembly), and the loop of __main__ over the sentences of a   *)
(* file.                                                                   *)
(*                                                                         *)
(* Strings are sequences of one-character strings, so that Python's        *)
(* substring test (a in b), the stripping of punctuation and stress digits *)
(* and the joining of phones into diphone labels are computed, not assumed.*)
(* A phrase is given as the token sequence word_tokenize returns for the   *)
(* lower-cased phrase (the tokenizer is a collaborator, not in src/); the  *)
(* tokens are taken to be separated as word_tokenize separates them again  *)
(* once the punctuation characters are removed.                            *)
(*                                                                         *)
(* An audio buffer is a sequence of chunks.  A chunk stands for a run of   *)
(* samples: the samples from..to of a unit of the library (or of silence), *)
(* with the held-back tail that was cross-faded into its first ms10        *)
(* samples, if any.  Amplitude scaling by --volume is not modelled.        *)
(***************************************************************************)
EXTENDS Integers, Sequences, FiniteSets, TLC

\* ------------------------------------------------------------------ bounds

\* The longest token sequence of a phrase.
MaxTokens == 4

\* The decomposer taken alone: the longest phone list and the most lists.
MaxPhones == 3
MaxLists == 2

\* The sentences of a file, at most.
MaxSentences == 3

\* ------------------------------------------------------- program constants

RATE == 16000
ms400 == (RATE * 4) \div 10
ms200 == (RATE * 2) \div 10
ms10 == RATE \div 100

\* Python's None, for a string or an error kind.
None == "None"

\* ----------------------------------------------------------------- strings

\* string.punctuation (the two quotes, the backslash and the backtick are
\* written by name).
Punctuation ==
    << "!", "dquote", "#", "$", "%", "&", "squote", "(", ")", "*", "+", ",",
       "-", ".", "/", ":", ";", "<", "=", ">", "?", "@", "[", "backslash", "]",
       "^", "_", "backtick", "{", "|", "}", "~" >>

\* The literals the scan tests a token against.
CommaLit == << "," >>
PauseLit == << ".", ".", ".", ",", ";", "?", "!" >>
StopLit == << ".", ".", ".", ";", "?", "!" >>
EllipsisLit == << ".", ".", "." >>
OpenLit == << "{" >>
CloseLit == << "}" >>

Digits == { "0", "1", "2", "3", "4", "5", "6", "7", "8", "9" }

\* Python's  a in b  for strings: a is a contiguous part of b.
StrIn(a, b) ==
    \E k \in 0 .. (Len(b) - Len(a)) : \A m \in 1 .. Len(a) : b[k + m] = a[m]

\* F applied to the value of e (e is evaluated once).
Bind(e, F(_)) == CHOOSE r \in { F(x) : x \in { e } } : TRUE

\* Python's  x in lst  for lists.
InList(x, lst) == \E k \in 1 .. Len(lst) : lst[k] = x

\* Python's  lst[::-1].
Reversed(lst) == [k \in 1 .. Len(lst) |-> lst[Len(lst) + 1 - k]]

\* str.lower(), on the characters the dictionary uses.
LowerChar(c) ==
    CASE c = "A" -> "a" [] c = "B" -> "b" [] c = "C" -> "c" [] c = "D" -> "d"
      [] c = "E" -> "e" [] c = "F" -> "f" [] c = "G" -> "g" [] c = "H" -> "h"
      [] c = "I" -> "i" [] c = "J" -> "j" [] c = "K" -> "k" [] c = "L" -> "l"
      [] c = "M" -> "m" [] c = "N" -> "n" [] c = "O" -> "o" [] c = "P" -> "p"
      [] c = "Q" -> "q" [] c = "R" -> "r" [] c = "S" -> "s" [] c = "T" -> "t"
      [] c = "U" -> "u" [] c = "V" -> "v" [] c = "W" -> "w" [] c = "X" -> "x"
      [] c = "Y" -> "y" [] c = "Z" -> "z" [] OTHER -> c

\* ------------------------------------------------- the phonetic dictionary

\* The words of the model, as the character sequences Python iterates over.
hello == << "h", "e", "l", "l", "o" >>
world == << "w", "o", "r", "l", "d" >>
ok == << "o", "k" >>
\* A word the dictionary does not hold.
zz == << "z", "z" >>

\* cmudict.dict()[word][0] for the words and letters of the model: the first
\* pronunciation, with its stress digits, as the dictionary stores it.
CmuDict ==
    (hello :> << <<"H","H">>, <<"A","H","0">>, <<"L">>, <<"O","W","1">> >>)
    @@ (world :> << <<"W">>, <<"E","R","1">>, <<"L">>, <<"D">> >>)
    @@ (ok :> << <<"O","W","2">>, <<"K">>, <<"E","Y","1">> >>)
    @@ (<<"h">> :> << <<"E","Y","1">>, <<"C","H">> >>)
    @@ (<<"e">> :> << <<"I","Y","1">> >>)
    @@ (<<"l">> :> << <<"E","H","1">>, <<"L">> >>)
    @@ (<<"o">> :> << <<"O","W","1">> >>)
    @@ (<<"w">> :> << <<"D">>, <<"A","H","1">>, <<"B">>, <<"A","H","0">>,
                      <<"L">>, <<"Y">>, <<"U","W","0">> >>)
    @@ (<<"r">> :> << <<"A","A","1">>, <<"R">> >>)
    @@ (<<"d">> :> << <<"D">>, <<"I","Y","1">> >>)
    @@ (<<"k">> :> << <<"K">>, <<"E","Y","1">> >>)
    @@ (<<"z">> :> << <<"Z">>, <<"I","Y","1">> >>)

\* word in cmudict.dict()
InDict(word) == word \in DOMAIN CmuDict

\* The pause phone.
pau == << "p", "a", "u" >>

\* ------------------------------------------------------------- the inputs

\* The tokens a phrase of the model is made of.
WordTokens == { hello, world, zz }
PunctTokens == { << "," >>, << "." >>, << "{" >>, << "}" >> }
Tokens == WordTokens \cup PunctTokens

\* The token sequences of at most n tokens.
RECURSIVE SeqsUpTo(_, _)
SeqsUpTo(S, n) ==
    IF n = 0 THEN { << >> }
    ELSE LET shorter == SeqsUpTo(S, n - 1)
         IN  shorter \cup { Append(s, t) : s \in { x \in shorter : Len(x) = n - 1 }, t \in S }

\* Phrases beside the bounded ones: the spec's scenario "ok." and a phrase
\* with each of the other stop marks.
ScenarioPhrases ==
    { << ok, << "." >> >>,
      << hello, << ";" >>, world, << "?" >> >>,
      << hello, << "!" >>, world, EllipsisLit >> }

Phrases == SeqsUpTo(Tokens, MaxTokens) \cup ScenarioPhrases

ReverseModes == { None, "words", "phones", "signal" }

\* The value of an option the constructor has not used yet.  args.reverse is
\* drawn where __init__ first tests it: nothing before depends on it.
Unread == "unread"

\* No error has ended the program.
NoFailure == [error |-> None, arg |-> << >>]

\* --------------------------------------------------------------- the state

VARIABLES
    tokens_with_punc, \* phrase_to_words: word_tokenize(self.phrase.lower());
                      \* a local, empty once phrase_to_words has returned
    spell,         \* self.spell
    reverse,       \* self.reverse; Unread until line 114 first tests it
    crossfade,     \* self.crossfade
    commas,        \* self.commas
    stops,         \* self.stops
    marks,         \* self.marks
    words,         \* self.words
    word_lengths,  \* self.word_lengths
    phones,        \* self.phones
    diphones,      \* self.diphones
    i,             \* diphones_to_wav: the index of the word being assembled
    synth_audio,   \* diphones_to_wav: synth_audio.data
    prev_diphone_last_10ms, \* diphones_to_wav: the tail held back last
    word_units,    \* per assembled word: the summed lengths of its units
    word_samples,  \* per assembled word: the samples its diphones appended
    out,           \* self.out: << >>, or << the buffer diphones_to_wav returned >>
    played,        \* << >>, or << the buffer synth_audio.play() played >>
    saved,         \* << >>, or << the buffer synth_audio.save(outfile) wrote >>
    failure,       \* the error that ended the program, NoFailure while none has
    pc,            \* the position in Synth.__init__, or in __main__'s loop
    fromfile,      \* __main__: args.fromfile is not None
    sentences,     \* __main__: read_from_file(args.fromfile), tokenized
    sentence,      \* __main__: the sentences the for loop has taken so far
    args_play,     \* args.play: << >> until line 403 first reads it
    args_outfile,  \* args.outfile in file mode; << >> when line 498 passes it on
    main_out,      \* __main__: out.data (line 505)
    main_saved,    \* << >>, or << the buffer out.save(args.outfile) wrote >>
    started,       \* the phrases a Synth was constructed for, in order
    outs           \* the buffers self.out of the constructed Synths, in order

inputs == << spell, reverse, crossfade >>
markup == << commas, stops, marks, words, word_lengths >>
derived == << phones, diphones >>
assembly == << i, synth_audio, prev_diphone_last_10ms, word_units, word_samples >>
outcome == << out, played, saved, failure >>
batch == << fromfile, sentences, sentence, args_outfile, main_out, main_saved,
           started, outs >>
vars == << tokens_with_punc, inputs, markup, derived, assembly, outcome, pc,
          batch, args_play >>

\* ------------------------------------------------------- Synth.phrase_to_words

\* The token list scanned: with spell, a "." is put between the tokens.
Interleave(toks) ==
    [k \in 1 .. (2 * Len(toks) - 1) |->
        IF k % 2 = 1 THEN toks[(k + 1) \div 2] ELSE << "." >>]

ScanTokens(toks, sp) == IF sp THEN Interleave(toks) ELSE toks

\* Python's lst[n] for an n that may be negative; the caller checks the range.
PyIndex(lst, n) == IF n < 0 THEN lst[Len(lst) + n + 1] ELSE lst[n + 1]

\* word in string.punctuation or word in "..."
IsPunct(word) == StrIn(word, Punctuation) \/ StrIn(word, EllipsisLit)

\* One pass of the loop body for token n (0-based) of toks, from the scan
\* state st = [counter, commas, stops, marks].  The IndexError of toks[n+2]
\* leaves the iteration before the counter is incremented.
ScanStep(toks, n, st) ==
    LET word == toks[n + 1]
        bump(s) == IF IsPunct(word) THEN [s EXCEPT !.counter = @ + 1] ELSE s
    IN  IF StrIn(word, CommaLit) /\ ~StrIn(PyIndex(toks, n - 1), PauseLit) /\ n > 0
        THEN bump([st EXCEPT !.commas = Append(@, n - st.counter - 1)])
        ELSE IF StrIn(word, StopLit) /\ ~StrIn(PyIndex(toks, n - 1), PauseLit) /\ n > 0
        THEN bump([st EXCEPT !.stops = Append(@, n - st.counter - 1)])
        ELSE IF StrIn(word, OpenLit)
        THEN IF n + 2 >= Len(toks)
             THEN st
             ELSE IF StrIn(toks[n + 3], CloseLit)
                  THEN bump([st EXCEPT !.marks = Append(@, n - st.counter)])
                  ELSE bump(st)
        ELSE bump(st)

RECURSIVE ScanFrom(_, _, _)
ScanFrom(toks, n, st) ==
    IF n >= Len(toks) THEN st
    ELSE Bind(ScanStep(toks, n, st), LAMBDA nx : ScanFrom(toks, n + 1, nx))

\* Lines 176-189: the loop over the tokens, from counter = 0 and empty lists.
Scan(toks) ==
    Bind(toks, LAMBDA t :
        ScanFrom(t, 0, [counter |-> 0, commas |-> << >>, stops |-> << >>, marks |-> << >>]))

\* The characters of a token that are not punctuation.
StripPunct(word) == SelectSeq(word, LAMBDA c : ~InList(c, Punctuation))

\* The normalised words: the tokens of the phrase without its punctuation.
RECURSIVE NormWords(_)
NormWords(toks) ==
    IF toks = << >> THEN << >>
    ELSE LET w == StripPunct(Head(toks))
         IN  IF w = << >> THEN NormWords(Tail(toks)) ELSE << w >> \o NormWords(Tail(toks))

\* Lines 497-498: a phrase was given, not a file; play and outfile are read
\* when diphones_to_wav comes to them.
PhraseMode ==
    /\ fromfile = FALSE
    /\ sentences = << >>
    /\ sentence = 0
    /\ args_play = << >>
    /\ args_outfile = << >>
    /\ main_out = << >>
    /\ main_saved = << >>
    /\ started = << >>
    /\ outs = << >>

Init ==
    /\ PhraseMode
    /\ tokens_with_punc \in Phrases
    /\ spell \in BOOLEAN
    /\ reverse = Unread
    /\ crossfade \in BOOLEAN
    /\ commas = << >>
    /\ stops = << >>
    /\ marks = << >>
    /\ words = << >>
    /\ word_lengths = << >>
    /\ phones = << >>
    /\ diphones = << >>
    /\ i = 0
    /\ synth_audio = << >>
    /\ prev_diphone_last_10ms = << >>
    /\ word_units = << >>
    /\ word_samples = << >>
    /\ out = << >>
    /\ played = << >>
    /\ saved = << >>
    /\ failure = NoFailure
    /\ pc = "phrase_to_words"

\* Lines 102-103: self.words = self.phrase_to_words(), and the word lengths.
PhraseToWords ==
    /\ pc = "phrase_to_words"
    /\ \E st \in { Scan(ScanTokens(tokens_with_punc, spell)) },
          ws \in { NormWords(tokens_with_punc) } :
           /\ commas' = st.commas
           /\ stops' = st.stops
           /\ marks' = st.marks
           /\ words' = ws
           /\ word_lengths' = [k \in 1 .. Len(ws) |-> Len(ws[k])]
    /\ tokens_with_punc' = << >>
    /\ pc' = "spell"
    /\ UNCHANGED << inputs, derived, assembly, outcome >>
    /\ UNCHANGED << batch, args_play >>

\* ------------------------------------------- Synth.__init__, lines 105-125

\* sum(lst[0:n]) for n >= 0: the slice ends at the end of the list.
RECURSIVE SumUpTo(_, _)
SumUpTo(lst, n) ==
    IF n <= 0 \/ lst = << >> THEN 0 ELSE Head(lst) + SumUpTo(Tail(lst), n - 1)

\* sum(self.word_lengths[0:n]); a negative n counts from the end of the list.
SumSlice(lst, n) == SumUpTo(lst, IF n < 0 THEN Len(lst) + n ELSE n)

\* Lines 109-111: [sum(self.word_lengths[0:i+1])-1 for i in idx]
SpellRemap(idx, lengths) ==
    [k \in 1 .. Len(idx) |-> SumSlice(lengths, idx[k] + 1) - 1]

\* Synth.words_to_letters: the letters of the words, each a word of its own.
RECURSIVE words_to_letters(_)
words_to_letters(ws) ==
    IF ws = << >> THEN << >>
    ELSE [k \in 1 .. Len(Head(ws)) |-> << Head(ws)[k] >>] \o words_to_letters(Tail(ws))

\* Lines 117-119 and 134-136: [len(self.words)-1-i for i in idx]
ReverseRemap(idx, n) == [k \in 1 .. Len(idx) |-> n - 1 - idx[k]]

\* Lines 106-111: if self.spell.
SpellStep ==
    /\ pc = "spell"
    /\ IF spell
       THEN /\ words' = words_to_letters(words)
            /\ commas' = SpellRemap(commas, word_lengths)
            /\ stops' = SpellRemap(stops, word_lengths)
            /\ marks' = SpellRemap(marks, word_lengths)
            /\ UNCHANGED word_lengths
       ELSE UNCHANGED markup
    /\ pc' = "reverse_words"
    /\ UNCHANGED << tokens_with_punc, inputs, derived, assembly, outcome >>
    /\ UNCHANGED << batch, args_play >>

\* Lines 114-119: if self.reverse == "words", for each value of args.reverse.
ReverseWords ==
    /\ pc = "reverse_words"
    /\ \E mode \in (IF reverse = Unread THEN ReverseModes ELSE { reverse }) :
         /\ reverse' = mode
         /\ IF mode = "words"
            THEN /\ words' = Reversed(words)
                 /\ commas' = ReverseRemap(commas, Len(words))
                 /\ stops' = ReverseRemap(stops, Len(words))
                 /\ marks' = ReverseRemap(marks, Len(words))
                 /\ UNCHANGED word_lengths
            ELSE UNCHANGED markup
    /\ pc' = "clear"
    /\ UNCHANGED << tokens_with_punc, spell, crossfade, derived, assembly, outcome >>
    /\ UNCHANGED << batch, args_play >>

\* Lines 122-125: if self.reverse is not None and self.spell.
ClearMarkup ==
    /\ pc = "clear"
    /\ IF reverse # None /\ spell
       THEN /\ commas' = << >>
            /\ stops' = << >>
            /\ marks' = << >>
            /\ UNCHANGED << words, word_lengths >>
       ELSE UNCHANGED markup
    /\ pc' = "words_to_phones"
    /\ UNCHANGED << tokens_with_punc, inputs, derived, assembly, outcome >>
    /\ UNCHANGED << batch, args_play >>

\* ---------------------------------------------------- Synth.words_to_phones

\* Lines 270-272: the phone without its digits, in lower case.
PreprocessPhone(phone) ==
    LET kept == SelectSeq(phone, LAMBDA c : c \notin Digits)
    IN  [k \in 1 .. Len(kept) |-> LowerChar(kept[k])]

\* Synth.preprocess_phones
preprocess_phones(pre_word) ==
    [k \in 1 .. Len(pre_word) |-> PreprocessPhone(pre_word[k])]

\* WordPhones with the pause taken for the next word's first phone after a
\* word that a pause follows.
WordPhones_NoPause(ws, n, cs, ss) ==
    LET word_phones == preprocess_phones(CmuDict[ws[n + 1]])
        next_first == preprocess_phones(CmuDict[ws[n + 2]])[1]
        ok_(v) == [error |-> None, word |-> << >>, val |-> v]
        keyerror == [error |-> "KeyError", word |-> ws[n + 2], val |-> << >>]
    IN  IF Len(ws) = 1
        THEN ok_(<< pau >> \o word_phones \o << pau >>)
        ELSE IF n = Len(ws) - 1
        THEN ok_(word_phones \o << pau >>)
        ELSE IF InDict(ws[n + 2])
             THEN ok_((IF n = 0 THEN << pau >> ELSE << >>) \o word_phones \o << next_first >>)
             ELSE keyerror

\* WordPhones with the look-ahead taking the last phone of the next word
\* where the code takes its first.
WordPhones_NextLast(ws, n, cs, ss) ==
    LET word_phones == preprocess_phones(CmuDict[ws[n + 1]])
        paused == InList(n, cs) \/ InList(n, ss)
        next_phones == preprocess_phones(CmuDict[ws[n + 2]])
        next_last == next_phones[Len(next_phones)]
        ok_(v) == [error |-> None, word |-> << >>, val |-> v]
        keyerror == [error |-> "KeyError", word |-> ws[n + 2], val |-> << >>]
    IN  IF Len(ws) = 1
        THEN ok_(<< pau >> \o word_phones \o << pau >>)
        ELSE IF paused \/ n = Len(ws) - 1
        THEN ok_((IF n = 0 THEN << pau >> ELSE << >>) \o word_phones \o << pau >>)
        ELSE IF InDict(ws[n + 2])
             THEN ok_((IF n = 0 THEN << pau >> ELSE << >>) \o word_phones \o << next_last >>)
             ELSE keyerror

\* Lines 233-246 for word n (0-based) of ws: the phone list appended, or the
\* KeyError of cmudict.dict()[self.words[n+1]] when the next word has no entry.
WordPhones(ws, n, cs, ss) ==
    LET word_phones == preprocess_phones(CmuDict[ws[n + 1]])
        paused == InList(n, cs) \/ InList(n, ss)
        next_first == preprocess_phones(CmuDict[ws[n + 2]])[1]
        ok_(v) == [error |-> None, word |-> << >>, val |-> v]
        keyerror == [error |-> "KeyError", word |-> ws[n + 2], val |-> << >>]
    IN  IF Len(ws) = 1
        THEN ok_(<< pau >> \o word_phones \o << pau >>)
        ELSE IF n = 0 /\ ~paused
        THEN IF InDict(ws[n + 2])
             THEN ok_(<< pau >> \o word_phones \o << next_first >>)
             ELSE keyerror
        ELSE IF n = 0 /\ paused
        THEN ok_(<< pau >> \o word_phones \o << pau >>)
        ELSE IF paused \/ n = Len(ws) - 1
        THEN ok_(word_phones \o << pau >>)
        ELSE IF InDict(ws[n + 2])
             THEN ok_(word_phones \o << next_first >>)
             ELSE keyerror

\* Lines 228-248: the loop over the words, from word n with acc built so far.
\* The result is the phone lists, or the error that ended the program:
\* "UnknownWord" is the sys.exit of line 231.
RECURSIVE PhonesFrom(_, _, _, _, _)
PhonesFrom(ws, n, cs, ss, acc) ==
    IF n >= Len(ws) THEN [error |-> None, word |-> << >>, val |-> acc]
    ELSE IF ~InDict(ws[n + 1])
    THEN [error |-> "UnknownWord", word |-> ws[n + 1], val |-> << >>]
    ELSE Bind(WordPhones(ws, n, cs, ss), LAMBDA r :
            IF r.error # None THEN r
            ELSE PhonesFrom(ws, n + 1, cs, ss, Append(acc, r.val)))

words_to_phones(ws, cs, ss) == PhonesFrom(ws, 0, cs, ss, << >>)

\* Line 128: self.phones = self.words_to_phones(); an error ends the program.
WordsToPhones ==
    /\ pc = "words_to_phones"
    /\ \E r \in { words_to_phones(words, commas, stops) } :
         IF r.error = None
         THEN /\ phones' = r.val
              /\ pc' = "reverse_phones"
              /\ UNCHANGED outcome
         ELSE /\ failure' = [error |-> r.error, arg |-> r.word]
              /\ pc' = "exit"
              /\ UNCHANGED << phones, out, played, saved >>
    /\ UNCHANGED << tokens_with_punc, inputs, markup, diphones, assembly >>
    /\ UNCHANGED << batch, args_play >>

\* Lines 131-136: if self.reverse == "phones".
ReversePhones ==
    /\ pc = "reverse_phones"
    /\ IF reverse = "phones"
       THEN /\ phones' = [k \in 1 .. Len(phones) |-> Reversed(Reversed(phones)[k])]
            /\ commas' = ReverseRemap(commas, Len(words))
            /\ stops' = ReverseRemap(stops, Len(words))
            /\ marks' = ReverseRemap(marks, Len(words))
            /\ UNCHANGED << words, word_lengths >>
       ELSE UNCHANGED << phones, markup >>
    /\ pc' = "phones_to_diphones"
    /\ UNCHANGED << tokens_with_punc, inputs, diphones, assembly, outcome >>
    /\ UNCHANGED << batch, args_play >>

\* ------------------------------------------------- Synth.phones_to_diphones

\* WordDiphones with the pair that ends at the word's last phone left out.
WordDiphones_Short(word) ==
    [k \in 1 .. (Len(word) - 2) |-> word[k] \o << "-" >> \o word[k + 1]]

\* Line 292: [word[i] + '-' + word[i+1] for i in range(len(word)-1)]
WordDiphones(word) ==
    [k \in 1 .. (Len(word) - 1) |-> word[k] \o << "-" >> \o word[k + 1]]

phones_to_diphones(phs) == [k \in 1 .. Len(phs) |-> WordDiphones(phs[k])]

\* Line 139: self.diphones = self.phones_to_diphones()
PhonesToDiphones ==
    /\ pc = "phones_to_diphones"
    /\ diphones' = phones_to_diphones(phones)
    /\ pc' = "diphones_to_wav"
    /\ UNCHANGED << tokens_with_punc, inputs, markup, phones, assembly, outcome >>
    /\ UNCHANGED << batch, args_play >>

\* -------------------------------------------------- Synth.load_diphone_data

\* The labels the wav folder holds no unit for.
MissingUnits == { << "o", "w", "-", "w" >>, << "c", "h", "-", "i", "y" >> }

\* HasUnit without the test of line 361.
HasUnit_Unchecked(label) == TRUE

\* diphone in self.diphones_dict.keys(): the folder holds a unit for every
\* other label.
HasUnit(label) == label \notin MissingUnits

\* The number of samples of the unit of a label (at least ms10 each).
UnitLen(label) == 200 * Len(label)

\* ---------------------------------------------------- Synth.diphones_to_wav

Silence == << "silence" >>

\* diphone_audio.load(...): the whole unit, nothing blended into it.
LoadUnit(label) ==
    [src |-> label, from |-> 0, to |-> UnitLen(label), fade |-> << >>, scaled |-> FALSE]

\* create_tone(0, n, 0): n samples of silence.
SilenceChunk(n) ==
    [src |-> Silence, from |-> 0, to |-> n, fade |-> << >>, scaled |-> FALSE]

\* The last ms10 samples of a loaded unit: diphone_audio.data[-ms10:]
TailOf(chunk) == [src |-> chunk.src, from |-> chunk.to - ms10, to |-> chunk.to]

\* len(data) of a buffer.
RECURSIVE Samples(_)
Samples(data) ==
    IF data = << >> THEN 0
    ELSE LET c == Head(data)
         IN  (IF c.to >= c.from THEN c.to - c.from ELSE c.from - c.to) + Samples(Tail(data))

\* Crossfaded with the tail of a word's last diphone left on the unit.
Crossfaded_PerWord(unit, j, nword, wi, nwords, cf, prev) ==
    LET blended == IF cf /\ j # 0 THEN [unit EXCEPT !.fade = prev] ELSE unit
        held == cf /\ ~(j = nword - 1)
    IN  [unit |-> IF held THEN [blended EXCEPT !.to = @ - ms10] ELSE blended,
         prev |-> IF held THEN << TailOf(unit) >> ELSE prev]

\* Lines 366-376 for diphone j (0-based) of word wi, on the loaded unit: the
\* unit as appended and the tail held back.  st.prev is the tail held back last.
Crossfaded(unit, j, nword, wi, nwords, cf, prev) ==
    LET blended == IF cf /\ j # 0 THEN [unit EXCEPT !.fade = prev] ELSE unit
        held == cf /\ ~(j = nword - 1 /\ wi = nwords - 1)
    IN  [unit |-> IF held THEN [blended EXCEPT !.to = @ - ms10] ELSE blended,
         prev |-> IF held THEN << TailOf(unit) >> ELSE prev]

\* Lines 357-378: the loop over the diphones of word wi, from diphone j with
\* st = [missing, data, prev, units] built so far.  st.missing is the label
\* the sys.exit of line 362 reports, << >> while every label has a unit.
RECURSIVE UnitsFrom(_, _, _, _, _, _)
UnitsFrom(word, j, wi, nwords, cf, st) ==
    IF j >= Len(word) THEN st
    ELSE IF ~HasUnit(word[j + 1])
    THEN [st EXCEPT !.missing = << word[j + 1] >>]
    ELSE Bind(Crossfaded(LoadUnit(word[j + 1]), j, Len(word), wi, nwords, cf, st.prev),
              LAMBDA r :
                UnitsFrom(word, j + 1, wi, nwords, cf,
                          [st EXCEPT !.data = Append(@, r.unit),
                                     !.prev = r.prev,
                                     !.units = @ + UnitLen(word[j + 1])]))

\* AfterWord with the two silences exchanged.
AfterWord_Swapped(data, wi, cs, ss, ms) ==
    LET with200 == IF InList(wi, cs) THEN Append(data, SilenceChunk(ms400)) ELSE data
        with400 == IF InList(wi, ss) THEN Append(with200, SilenceChunk(ms200)) ELSE with200
    IN  IF InList(wi, ms)
        THEN [k \in 1 .. Len(with400) |-> [with400[k] EXCEPT !.scaled = TRUE]]
        ELSE with400

\* Lines 381-389: the silences after word wi and the rescaling of a marked word.
AfterWord(data, wi, cs, ss, ms) ==
    LET with200 == IF InList(wi, cs) THEN Append(data, SilenceChunk(ms200)) ELSE data
        with400 == IF InList(wi, ss) THEN Append(with200, SilenceChunk(ms400)) ELSE with200
    IN  IF InList(wi, ms)
        THEN [k \in 1 .. Len(with400) |-> [with400[k] EXCEPT !.scaled = TRUE]]
        ELSE with400

\* Lines 353-392 for word i: its diphones, the silences, and the append to the
\* utterance; a label with no unit ends the program.
AssembleWord ==
    /\ pc = "diphones_to_wav"
    /\ i < Len(diphones)
    /\ \E r \in { UnitsFrom(diphones[i + 1], 0, i, Len(diphones), crossfade,
                            [missing |-> << >>, data |-> << >>,
                             prev |-> prev_diphone_last_10ms, units |-> 0]) } :
         IF r.missing # << >>
         THEN /\ failure' = [error |-> "MissingUnit", arg |-> r.missing[1]]
              /\ pc' = "exit"
              /\ UNCHANGED << assembly, out, played, saved >>
         ELSE /\ synth_audio' = synth_audio \o AfterWord(r.data, i, commas, stops, marks)
              /\ prev_diphone_last_10ms' = r.prev
              /\ word_units' = Append(word_units, r.units)
              /\ word_samples' = Append(word_samples, Samples(r.data))
              /\ i' = i + 1
              /\ UNCHANGED << outcome, pc >>
    /\ UNCHANGED << tokens_with_punc, inputs, markup, derived >>
    /\ UNCHANGED << batch, args_play >>

\* synth_audio.data[::-1]: the chunks, and the samples of each, in reverse.
ReversedSignal(data) ==
    [k \in 1 .. Len(data) |->
        LET c == data[Len(data) + 1 - k] IN [c EXCEPT !.from = c.to, !.to = c.from]]

\* args.play: any value when line 403 is the first to read it, the value
\* read before otherwise.
PlayArg == IF args_play = << >> THEN BOOLEAN ELSE { args_play[1] }

\* The outfile of the Synth: args.outfile (line 498), or the default None
\* when __main__ constructs the Synth for a sentence of a file (lines 501, 507).
OutfileArg == IF fromfile THEN { None } ELSE { None, "out.wav" }

\* Lines 398-411: the reversal of the signal, play, save and return, for the
\* values of args.play and outfile.
Finish ==
    /\ pc = "diphones_to_wav"
    /\ i = Len(diphones)
    /\ \E play \in PlayArg, outfile \in OutfileArg :
         \E data \in { IF reverse = "signal" THEN ReversedSignal(synth_audio) ELSE synth_audio } :
            /\ synth_audio' = data
            /\ played' = IF play THEN << data >> ELSE << >>
            /\ saved' = IF outfile # None THEN << data >> ELSE << >>
            /\ out' = << data >>
            /\ args_play' = << play >>
    /\ pc' = "done"
    /\ UNCHANGED << tokens_with_punc, inputs, markup, derived, i,
                    prev_diphone_last_10ms, word_units, word_samples, failure >>
    /\ UNCHANGED batch

\* --------------------------------------------------------- specifications

Next ==
    \/ PhraseToWords
    \/ SpellStep
    \/ ReverseWords
    \/ ClearMarkup
    \/ WordsToPhones
    \/ ReversePhones
    \/ PhonesToDiphones
    \/ AssembleWord
    \/ Finish

Spec == Init /\ [][Next]_vars

\* phones_to_diphones as a function of any phone lists, those of fewer than
\* two phones too (words_to_phones returns none such).
PhoneSymbols == { pau, << "a", "h" >> }

InitDecompose ==
    /\ PhraseMode
    /\ phones \in SeqsUpTo(SeqsUpTo(PhoneSymbols, MaxPhones), MaxLists)
    /\ pc = "phones_to_diphones"
    /\ tokens_with_punc = << >>
    /\ spell = FALSE
    /\ reverse = None
    /\ crossfade = FALSE
    /\ commas = << >>
    /\ stops = << >>
    /\ marks = << >>
    /\ words = << >>
    /\ word_lengths = << >>
    /\ diphones = << >>
    /\ i = 0
    /\ synth_audio = << >>
    /\ prev_diphone_last_10ms = << >>
    /\ word_units = << >>
    /\ word_samples = << >>
    /\ out = << >>
    /\ played = << >>
    /\ saved = << >>
    /\ failure = NoFailure

SpecDecompose == InitDecompose /\ [][PhonesToDiphones]_vars

\* ------------------------------------------- __main__, lines 499-511

\* The sentences a file may hold: two that synthesize, one that needs a unit
\* the library lacks (ow-w), one with a word the dictionary lacks.
FileSentences ==
    { << hello, << "," >>, world, << "." >> >>, << ok, << "." >> >>,
      << hello, world >>, << zz >> }

\* read_from_file(args.fromfile): the sentences of the file, in file order.
read_from_file == SeqsUpTo(FileSentences, MaxSentences)

\* The state when __main__ reaches its for loop (line 500 or line 506).
InitBatch ==
    /\ fromfile = TRUE
    /\ sentences \in read_from_file
    /\ sentence = 0
    /\ args_play = << >>
    /\ args_outfile \in { << None >>, << "out.wav" >> }
    /\ main_out = << >>
    /\ main_saved = << >>
    /\ started = << >>
    /\ outs = << >>
    /\ tokens_with_punc = << >>
    /\ spell \in BOOLEAN
    /\ reverse = Unread
    /\ crossfade \in BOOLEAN
    /\ commas = << >>
    /\ stops = << >>
    /\ marks = << >>
    /\ words = << >>
    /\ word_lengths = << >>
    /\ phones = << >>
    /\ diphones = << >>
    /\ i = 0
    /\ synth_audio = << >>
    /\ prev_diphone_last_10ms = << >>
    /\ word_units = << >>
    /\ word_samples = << >>
    /\ out = << >>
    /\ played = << >>
    /\ saved = << >>
    /\ failure = NoFailure
    /\ pc = "main"

\* Lines 500-501 and 506-507: the loop takes the next sentence and constructs
\* a Synth for it (lines 87-99: a new object, its lists empty).
NextSentence ==
    /\ fromfile
    /\ pc = "main"
    /\ sentence < Len(sentences)
    /\ sentence' = sentence + 1
    /\ tokens_with_punc' = sentences[sentence + 1]
    /\ started' = Append(started, sentences[sentence + 1])
    /\ commas' = << >>
    /\ stops' = << >>
    /\ marks' = << >>
    /\ words' = << >>
    /\ word_lengths' = << >>
    /\ phones' = << >>
    /\ diphones' = << >>
    /\ i' = 0
    /\ synth_audio' = << >>
    /\ prev_diphone_last_10ms' = << >>
    /\ word_units' = << >>
    /\ word_samples' = << >>
    /\ out' = << >>
    /\ played' = << >>
    /\ saved' = << >>
    /\ pc' = "phrase_to_words"
    /\ UNCHANGED << inputs, failure, fromfile, sentences, args_play, args_outfile,
                    main_out, main_saved, outs >>

\* Collected with the sentence's buffer put before the buffers collected so far.
Collected_Prepended(data, buf) == buf \o data

\* Line 508: np.append(out.data, diphone_synth.out.data)
Collected(data, buf) == data \o buf

\* The Synth of the sentence is constructed: line 508 when an outfile was
\* given, and back to the head of the loop.
EndSentence ==
    /\ fromfile
    /\ pc = "done"
    /\ main_out' = IF args_outfile[1] # None THEN Collected(main_out, out[1])
                   ELSE main_out
    /\ outs' = Append(outs, out[1])
    /\ pc' = "main"
    /\ UNCHANGED << tokens_with_punc, inputs, markup, derived, assembly, outcome,
                    fromfile, sentences, sentence, args_play, args_outfile,
                    main_saved, started >>

\* The loop is over: out.save(args.outfile), line 509, when an outfile was given.
EndBatch ==
    /\ fromfile
    /\ pc = "main"
    /\ sentence = Len(sentences)
    /\ main_saved' = IF args_outfile[1] # None THEN << main_out >> ELSE << >>
    /\ pc' = "end"
    /\ UNCHANGED << tokens_with_punc, inputs, markup, derived, assembly, outcome,
                    fromfile, sentences, sentence, args_play, args_outfile,
                    main_out, started, outs >>

NextBatch ==
    \/ Next
    \/ NextSentence
    \/ EndSentence
    \/ EndBatch

SpecBatch == InitBatch /\ [][NextBatch]_vars

\* ================================================================ claims

\* The set of the elements of a list.
Elems(lst) == { lst[k] : k \in 1 .. Len(lst) }

\* Token t of toks is a word: something of it is left without the punctuation.
IsWordAt(toks, t) == StripPunct(toks[t]) # << >>

\* The position among the normalised words of the word at token t.
WordPos(toks, t) == Cardinality({ u \in 1 .. (t - 1) : IsWordAt(toks, u) })

HelloWorldPhrase == << hello, << "," >>, world, << "." >> >>

\* The utterance of "hello, world." with spell off and no reversal.
IsHelloWorld ==
    /\ ~spell
    /\ reverse = None
    /\ words = << hello, world >>
    /\ commas = << 0 >>
    /\ stops = << 1 >>
    /\ marks = << >>

\* C1, the extraction: with spell off, phrase_to_words puts the position of
\* every word directly followed by a comma token in commas and of every word
\* directly followed by one of . ; ? ! in stops, and "hello, world." gives the
\* words [hello, world], commas {0} and stops {1}.
C1_Extraction ==
    (pc = "phrase_to_words" /\ ~spell) =>
        /\ \A t \in 1 .. (Len(tokens_with_punc) - 1) :
              IsWordAt(tokens_with_punc, t) =>
                /\ tokens_with_punc[t + 1] = << "," >>
                      => WordPos(tokens_with_punc, t) \in Elems(commas')
                /\ tokens_with_punc[t + 1] \in { << "." >>, << ";" >>, << "?" >>, << "!" >> }
                      => WordPos(tokens_with_punc, t) \in Elems(stops')
        /\ tokens_with_punc = HelloWorldPhrase =>
              /\ words' = << hello, world >>
              /\ Elems(commas') = { 0 }
              /\ Elems(stops') = { 1 }

\* C1, the assembly of "hello, world.": word 0's phone list ends with the
\* pause, and the buffer is word 0's units, 3200 samples of silence, word 1's
\* units and 6400 samples of silence.
C1_Assembly ==
    IsHelloWorld =>
        /\ pc \in { "reverse_phones", "phones_to_diphones", "diphones_to_wav", "done" }
              => phones[1][Len(phones[1])] = pau
        /\ pc = "done" =>
              LET data == out[1]
                  n0 == Len(diphones[1])
                  n1 == Len(diphones[2])
                  isSilence(c, n) == c.src = Silence /\ c.from = 0 /\ c.to = n
              IN  /\ n0 > 0 /\ n1 > 0
                  /\ Len(data) = n0 + n1 + 2
                  /\ \A k \in 1 .. n0 : data[k].src = diphones[1][k]
                  /\ isSilence(data[n0 + 1], 3200)
                  /\ \A k \in 1 .. n1 : data[n0 + 1 + k].src = diphones[2][k]
                  /\ isSilence(data[n0 + n1 + 2], 6400)

Ended == pc \in { "exit", "done" }

\* words_to_phones has run (self.words is not assigned after it).
PastPhones == pc \notin { "phrase_to_words", "spell", "reverse_words", "clear", "words_to_phones" }

\* The first word of ws the dictionary does not hold.
FirstUnknown(ws) ==
    ws[CHOOSE k \in 1 .. Len(ws) :
          /\ ~InDict(ws[k])
          /\ \A m \in 1 .. (k - 1) : InDict(ws[m])]

\* C2: whenever some word of the utterance has no dictionary entry, whatever
\* its position, synthesis ends in the unknown-word error naming that word,
\* no unit is looked up and nothing is returned, played or saved.
C2_UnknownWordReported ==
    (PastPhones /\ \E k \in 1 .. Len(words) : ~InDict(words[k])) =>
        /\ pc = "exit"
        /\ failure = [error |-> "UnknownWord", arg |-> FirstUnknown(words)]
        /\ i = 0 /\ synth_audio = << >>
        /\ out = << >> /\ played = << >> /\ saved = << >>

\* The labels of the utterance in the order diphones_to_wav meets them.
RECURSIVE Flat(_)
Flat(lists) == IF lists = << >> THEN << >> ELSE Head(lists) \o Flat(Tail(lists))

\* diphones_to_wav has been entered.
InAssembly ==
    \/ pc \in { "diphones_to_wav", "done" }
    \/ pc = "exit" /\ failure.error = "MissingUnit"

\* The first label of the utterance with no unit in the library.
FirstMissing(labels) ==
    labels[CHOOSE k \in 1 .. Len(labels) :
              /\ labels[k] \in MissingUnits
              /\ \A m \in 1 .. (k - 1) : labels[m] \notin MissingUnits]

\* C3: when a label of the utterance has no unit in the library, assembly ends
\* in the missing-unit error naming that label, and the buffer accumulated
\* from the earlier units and words is neither returned, played nor saved.
C3_MissingUnitReported ==
    (InAssembly /\ \E k \in 1 .. Len(Flat(diphones)) : Flat(diphones)[k] \in MissingUnits) =>
        /\ out = << >> /\ played = << >> /\ saved = << >>
        /\ pc # "done"
        /\ pc = "exit" => failure = [error |-> "MissingUnit", arg |-> FirstMissing(Flat(diphones))]
        /\ pc = "diphones_to_wav" =>
              /\ failure = NoFailure
              /\ \A w \in 1 .. i : \A k \in 1 .. Len(diphones[w]) : diphones[w][k] \notin MissingUnits

\* C3's case: the program ended on a missing unit of a later word, with the
\* earlier words already in the utterance buffer.
C3_Witness ==
    /\ pc = "exit"
    /\ failure.error = "MissingUnit"
    /\ i > 0
    /\ synth_audio # << >>
    /\ out = << >>

\* How often x is in a list.
Count(x, lst) == Cardinality({ k \in 1 .. Len(lst) : lst[k] = x })

\* C4: each word position gets at most one punctuation classification: after
\* phrase_to_words no position is in both commas and stops and none is
\* recorded twice.
C4_OneClassification ==
    pc = "spell" =>
        \A p \in 0 .. (Len(words) - 1) : Count(p, commas) + Count(p, stops) <= 1

\* The phones of word n (0-based) of the utterance, as the dictionary gives them.
DictPhones(n) == preprocess_phones(CmuDict[words[n + 1]])

\* Word n is followed by a pause: n is in the comma or the stop set.
Paused(n) == n \in Elems(commas) \cup Elems(stops)

\* The phone list the rule of C5 gives word n among the N words.
C5_Rule(n) ==
    LET N == Len(words)
        own == DictPhones(n)
    IN  CASE N = 1 -> << pau >> \o own \o << pau >>
          [] N # 1 /\ n = 0 /\ ~Paused(n) -> << pau >> \o own \o << DictPhones(1)[1] >>
          [] N # 1 /\ n = 0 /\ Paused(n) -> << pau >> \o own \o << pau >>
          [] N # 1 /\ n # 0 /\ (Paused(n) \/ n = N - 1) -> own \o << pau >>
          [] OTHER -> own \o << DictPhones(n + 1)[1] >>

\* C5: words_to_phones gives word n the list of the rule, so every list ends
\* with the pause or with the first phone of the next word, and the list of
\* a single word has the pause at both ends.
C5_PhonemeSequencer ==
    pc = "reverse_phones" =>
        /\ Len(phones) = Len(words)
        /\ \A n \in 0 .. (Len(words) - 1) :
              LET list == phones[n + 1]
                  last == list[Len(list)]
              IN  /\ list = C5_Rule(n)
                  /\ \/ last = pau
                     \/ n + 1 < Len(words) /\ last = DictPhones(n + 1)[1]
        /\ Len(words) = 1 => phones[1][1] = pau /\ phones[1][Len(phones[1])] = pau

\* C5's case: three words or more, one in the middle with a pause after it
\* and one without.
C5_Witness ==
    /\ pc = "reverse_phones"
    /\ Len(words) >= 4
    /\ \E n \in 1 .. (Len(words) - 2) : Paused(n)
    /\ \E n \in 1 .. (Len(words) - 2) : ~Paused(n)
    /\ ~Paused(0)

\* The samples held back from the diphones of word w (1-based) of the N words
\* when every unit but the utterance's last loses ms10 samples.
HeldBack(w, N) == 160 * (IF w = N THEN Len(diphones[w]) - 1 ELSE Len(diphones[w]))

\* C6 as stated: with crossfade, the diphones of every word with k diphones
\* contribute the summed unit lengths less 160 * (k - 1) samples.
C6_AsStated ==
    (crossfade /\ pc \in { "diphones_to_wav", "done" }) =>
        \A w \in 1 .. Len(word_samples) :
            word_samples[w] = word_units[w] - 160 * (Len(diphones[w]) - 1)

\* C6, amended: with crossfade, the diphones of a word with k diphones
\* contribute the summed unit lengths less 160 * k samples, and those of the
\* last word less 160 * (k - 1): every unit but the utterance's final diphone
\* loses its last 160 samples, and the final diphone is appended whole.
C6_CrossfadeLength ==
    (crossfade /\ pc \in { "diphones_to_wav", "done" }) =>
        /\ \A w \in 1 .. Len(word_samples) :
              word_samples[w] = word_units[w] - HeldBack(w, Len(diphones))
        /\ (pc = "done" /\ reverse # "signal" /\ Flat(diphones) # << >>) =>
              LET units == SelectSeq(out[1], LAMBDA c : c.src # Silence)
                  final == units[Len(units)]
              IN  final.to - final.from = UnitLen(final.src)

\* C6's case: an utterance of several words assembled with crossfade.
C6_Witness ==
    /\ crossfade
    /\ pc = "done"
    /\ Len(word_samples) >= 2
    /\ \A w \in 1 .. Len(diphones) : Len(diphones[w]) >= 2

\* C7: phones_to_diphones returns one label list per phone list, in order: the
\* list [p0, ..., pk] gives the k labels p0-p1, ..., p(k-1)-pk, and a list of
\* fewer than two phones gives no label.
C7_Decomposer ==
    pc = "diphones_to_wav" =>
        /\ Len(diphones) = Len(phones)
        /\ \A w \in 1 .. Len(phones) :
              LET list == phones[w]
                  labels == diphones[w]
              IN  /\ Len(labels) = (IF Len(list) < 2 THEN 0 ELSE Len(list) - 1)
                  /\ \A k \in 1 .. Len(labels) :
                        labels[k] = list[k] \o << "-" >> \o list[k + 1]

\* C7's case: a list of fewer than two phones beside one of three.
C7_Witness ==
    /\ pc = "diphones_to_wav"
    /\ \E w \in 1 .. Len(phones) : Len(phones[w]) < 2
    /\ \E w \in 1 .. Len(phones) : Len(phones[w]) = 3 /\ Len(diphones[w]) = 2

\* The positions of the last letters of the words of the given lengths.
LastLetters(lengths) == { SumUpTo(lengths, p) - 1 : p \in 1 .. Len(lengths) }

\* C8, the extraction with spell: a pause is recorded after every word that
\* another token follows, and "ok." gives the word [ok] with a stop after it.
C8_PauseRecorded ==
    (pc = "phrase_to_words" /\ spell) =>
        /\ \A t \in 1 .. (Len(tokens_with_punc) - 1) :
              IsWordAt(tokens_with_punc, t) =>
                 WordPos(tokens_with_punc, t) \in Elems(commas') \cup Elems(stops')
        /\ tokens_with_punc = << ok, << "." >> >> =>
              words' = << ok >> /\ Elems(stops') = { 0 } /\ commas' = << >> /\ marks' = << >>

\* C8, the letters: the words become the letters of the words, in order, and
\* "ok" with a stop after it becomes [o, k] with the stop set {1}.
C8_Letters ==
    (pc = "spell" /\ spell) =>
        /\ Len(words') = SumUpTo(word_lengths, Len(word_lengths))
        /\ \A w \in 1 .. Len(words) : \A k \in 1 .. Len(words[w]) :
              words'[SumUpTo(word_lengths, w - 1) + k] = << words[w][k] >>
        /\ (words = << ok >> /\ Elems(stops) = { 0 }) =>
              words' = << << "o" >>, << "k" >> >> /\ Elems(stops') = { 1 }

\* C8, the indices: every index of the three sets is the position of the last
\* letter of a word.
C8_LastLetter ==
    (pc = "spell" /\ spell) =>
        Elems(commas') \cup Elems(stops') \cup Elems(marks') \subseteq LastLetters(word_lengths)

\* C8: with spell set and no reversal, the words become their letters, a
\* pause is recorded after every word followed by another word or by
\* punctuation, and every index of the comma, stop and mark sets is the
\* position of the last letter of a word; "ok." gives [o, k] and stops {1}.
C8_Spelling == [][C8_PauseRecorded /\ C8_Letters /\ C8_LastLetter]_vars

\* The units of a buffer: its chunks that are not silence.
UnitsOf(data) == SelectSeq(data, LAMBDA c : c.src # Silence)

\* The chunk lost its last ms10 samples.
Trimmed(c) == c.to = UnitLen(c.src) - 160

\* C9: with crossfade, the 160 samples held back from a unit are blended into
\* the first 160 samples of the next unit of the utterance, at the boundary
\* between two words too: every unit but the last is trimmed, and the unit
\* after a trimmed one carries its tail.
C9_EveryTailBlended ==
    (crossfade /\ pc = "diphones_to_wav") =>
        LET units == UnitsOf(synth_audio)
        IN  \A k \in 1 .. (Len(units) - 1) :
               Trimmed(units[k]) =>
                  units[k + 1].fade =
                     << [src |-> units[k].src, from |-> units[k].to, to |-> UnitLen(units[k].src)] >>

\* The chunks diphones_to_wav appended in the step.
Appended == SubSeq(synth_audio', Len(synth_audio) + 1, Len(synth_audio'))

\* The lengths of the silences among chunks.
SilencesOf(data) ==
    LET sil == SelectSeq(data, LAMBDA c : c.src = Silence)
    IN  [k \in 1 .. Len(sil) |-> sil[k].to - sil[k].from]

\* C10: after the diphones of word i the assembler appends one silence or
\* none: 6400 samples if i is in the stop set, otherwise 3200 if it is in the
\* comma set, otherwise nothing.
C10_OneSilence ==
    [][(pc = "diphones_to_wav" /\ i' = i + 1) =>
          SilencesOf(Appended) =
             IF i \in Elems(stops) THEN << 6400 >>
             ELSE IF i \in Elems(commas) THEN << 3200 >>
             ELSE << >>]_vars

\* The markup after the last remap of Synth.__init__ (line 136).
Remapped == pc \in { "phones_to_diphones", "diphones_to_wav", "done" }

\* C12: for every token sequence, spell and reverse mode, once extraction and
\* all remaps (spelling, word reversal, phone reversal) are done, every
\* element of commas, stops and marks is a position of the final word
\* sequence: at least 0 and less than the number of words.
C12_ValidIndices ==
    Remapped =>
        \A x \in Elems(commas) \cup Elems(stops) \cup Elems(marks) :
            0 <= x /\ x < Len(words)

\* The place of the hyphen that joins the two phones of a label.
DashAt(label) == CHOOSE k \in 1 .. Len(label) : label[k] = "-"

\* The first and the second phone of a label.
LabelFirst(label) == SubSeq(label, 1, DashAt(label) - 1)

LabelSecond(label) == SubSeq(label, DashAt(label) + 1, Len(label))

\* The labels of word w (1-based) chain: each label starts with the phone the
\* label before it ends with.
ChainedInside(w) ==
    \A k \in 1 .. (Len(diphones[w]) - 1) :
        LabelSecond(diphones[w][k]) = LabelFirst(diphones[w][k + 1])

\* C13: with a reverse mode other than phones, the labels of the utterance
\* read in order form one chain: inside a word every label starts with the
\* phone the label before it ends with, and the first label of the next word
\* starts with the phone the last label of a word ends with, except exactly
\* when the word is in the comma or the stop set; then its last label ends
\* with the pause, the next word's first label starts with that word's own
\* first phone, and no label of the next word starts with the pause.
C13_LabelChain ==
    (InAssembly /\ reverse # "phones") =>
        /\ \A w \in 1 .. Len(diphones) : ChainedInside(w)
        /\ \A w \in 1 .. (Len(diphones) - 1) :
              LET last == diphones[w][Len(diphones[w])]
                  next == diphones[w + 1]
              IN  /\ (LabelSecond(last) = LabelFirst(next[1])) <=> ~Paused(w - 1)
                  /\ Paused(w - 1) =>
                        /\ LabelSecond(last) = pau
                        /\ LabelFirst(next[1]) = DictPhones(w)[1]
                        /\ \A k \in 1 .. Len(next) : LabelFirst(next[k]) # pau

\* C13's case: an utterance of three words or more, not reversed by phones,
\* with a pause after one word that is not the last and none after another.
C13_Witness ==
    /\ pc = "done"
    /\ reverse # "phones"
    /\ Len(diphones) >= 3
    /\ \E w \in 1 .. (Len(diphones) - 1) : Paused(w - 1) /\ Len(diphones[w]) >= 2
    /\ \E w \in 1 .. (Len(diphones) - 1) : ~Paused(w - 1)

\* C11, the states: the Synths were constructed for the sentences of the file
\* in file order, each constructed to the end before the next one begins;
\* after a fatal error nothing was saved; and the combined file, written when
\* an outfile was given, is written after the last sentence and holds the
\* buffers of the sentences joined in sentence order.
C11_States ==
    /\ started = SubSeq(sentences, 1, Len(started))
    /\ sentence = Len(started)
    /\ Len(outs) = IF pc \in { "main", "end" } THEN sentence ELSE sentence - 1
    /\ pc = "exit" => failure # NoFailure /\ main_saved = << >>
    /\ main_saved # << >> =>
          /\ pc = "end"
          /\ Len(outs) = Len(sentences)
          /\ main_saved[1] = Flat(outs)
    /\ pc = "end" => (main_saved # << >> <=> args_outfile[1] # None)

\* C11, the steps: a sentence begins only between two sentences, and no step
\* follows a fatal error.
C11_Steps ==
    /\ pc # "exit"
    /\ started' # started => pc = "main" /\ Len(outs) = Len(started)

\* C11: in file mode the sentences are synthesized one after another in file
\* order, each to the end before the next begins; a fatal error on a sentence
\* ends the batch, so that no later sentence is synthesized and nothing is
\* saved; the combined file is written once every sentence is synthesized
\* and holds the buffers of the sentences in sentence order.
C11_Batch == [](fromfile => C11_States) /\ [][fromfile => C11_Steps]_vars

\* C11's case: a file of three sentences, the first two different, was
\* synthesized and saved.
C11_Witness ==
    /\ fromfile
    /\ pc = "end"
    /\ Len(sentences) >= 3
    /\ main_saved # << >>
    /\ outs[1] # outs[2]

\* A fatal error on the second sentence of three ended the batch.
C11_Aborted ==
    /\ fromfile
    /\ pc = "exit"
    /\ Len(sentences) = 3
    /\ sentence = 2
    /\ args_outfile[1] # None

====
